---- MODULE Spec2Model ----
(***************************************************************************)
(* Model of the LinkedIn content agent: the two LangGraph workflows        *)
(* (src/src/graph.py, src/src/product_promotion_graph.py), the interactive *)
(* runner run_linkedin_agent_interactive and the stage functions under     *)
(* src/src/nodes.  A state of the run is a mapping from keys to values; a  *)
(* stage returns a delta (a mapping over some keys) or raises.             *)
(***************************************************************************)
EXTENDS Naturals, Sequences, FiniteSets, TLC

\* ---------------------------------------------------------------- bounds
MaxVideos == 2
MaxIdeas == 3
MaxUploads == 1
MaxLines == 3
MaxSections == 3

\* ------------------------------------------------------------ value model
\* Python None, True and False; every scalar of the state is a string.
NONE == "None"
PyTrue == "True"
PyFalse == "False"

EmptyDict == [k \in {} |-> NONE]

\* dict.get(key, default)
Get(d, k, default) == IF k \in DOMAIN d THEN d[k] ELSE default

Msg(role, content) == [role |-> role, content |-> content]

Range(s) == {s[i] : i \in 1..Len(s)}

IsPrefix(s, t) == Len(s) <= Len(t) /\ \A i \in 1..Len(s) : s[i] = t[i]

\* the keys declared by the State TypedDict
StateKeys ==
    {"topic", "messages", "scraped_content", "scraping_status", "scraping_errors",
     "content_ideas", "selected_idea", "research_data", "research_status",
     "linkedin_post", "writing_status", "generated_image", "image_status",
     "google_doc", "docs_status", "user_approval", "approval_feedback",
     "linkedin_post_id", "posting_status", "product_data", "uploaded_images",
     "promotion_status", "workflow_status", "error_message"}

StatusKeys ==
    {"workflow_status", "scraping_status", "writing_status", "image_status",
     "posting_status", "promotion_status"}

StageStatusKeys == StatusKeys \ {"workflow_status"}

\* the reducer of the messages channel: new messages are appended
add_messages(left, right) == left \o right

\* merge of a node's return value into the graph state: a declared key is
\* overwritten, messages goes through its reducer, a key the State schema
\* does not declare has no channel and is not written
GraphMerge(s, d) ==
    [k \in DOMAIN s \cup (DOMAIN d \cap StateKeys) |->
        IF k \in DOMAIN d
        THEN IF k = "messages"
             THEN add_messages(Get(s, "messages", <<>>), d[k])
             ELSE d[k]
        ELSE s[k]]

\* result.update(delta) on the plain dict returned by graph.invoke
DictUpdate(s, d) ==
    [k \in DOMAIN s \cup DOMAIN d |-> IF k \in DOMAIN d THEN d[k] ELSE s[k]]

\* ------------------------------------------------------------ environment
EnvVars ==
    {"GROQ_API_KEY", "APIFY_TOKEN", "KIE_API_KEY",
     "LINKEDIN_ACCESS_TOKEN", "LINKEDIN_CLIENT_ID", "LINKEDIN_CLIENT_SECRET"}

Topics == {"", "ai"}

CreateAbout(topic) ==
    IF topic = "" THEN "Create LinkedIn content about: "
    ELSE "Create LinkedIn content about: ai"

Ideas == {"A", "B"}
Videos == <<"v1", "v2", "v3", "v4">>

IdeaLists == UNION {[1..n -> Ideas] : n \in 0..MaxIdeas}

Raise == [raised |-> TRUE, delta |-> EmptyDict]
Ret(d) == [raised |-> FALSE, delta |-> d]

\* the outcomes of a call that leaves the dict it was given as `after`
Leaving(after, outcomes) ==
    {[raised |-> o.raised, delta |-> o.delta, state |-> after] : o \in outcomes}

Posts == {"p1", "p2"}

\* the image the image backend renders for a post
ImageFor(post) == IF post = "p1" THEN "img_p1" ELSE "img_p2"

\* run_agent.check_environment_variables: True when the four required
\* variables are set; the optional ones do not change its result
check_environment_variables(environ) ==
    {"GROQ_API_KEY", "LINKEDIN_ACCESS_TOKEN", "LINKEDIN_CLIENT_ID",
     "LINKEDIN_CLIENT_SECRET"} \subseteq environ

\* ------------------------------------------------------- main graph nodes
\* input_node: the topic comes from the state or, when empty, from the last
\* user message; the messages of a graph state are message objects, so the
\* lookup message.get("role") either raises or yields the prompt text
input_node(state) ==
    LET topic == Get(state, "topic", "")
        messages == Get(state, "messages", <<>>)
        userMsgs == {i \in 1..Len(messages) : messages[i].role = "user"}
        last == CHOOSE i \in userMsgs : \A j \in userMsgs : j <= i
        fromMsgs == IF userMsgs = {} THEN "" ELSE messages[last].content
        Initialized(t) ==
            [topic |-> t,
             scraped_content |-> <<>>,
             scraping_status |-> "pending",
             scraping_errors |-> <<>>,
             content_ideas |-> <<>>,
             selected_idea |-> NONE,
             research_data |-> NONE,
             research_status |-> "pending",
             linkedin_post |-> NONE,
             writing_status |-> "pending",
             generated_image |-> NONE,
             image_status |-> "pending",
             google_doc |-> NONE,
             docs_status |-> "pending",
             user_approval |-> NONE,
             approval_feedback |-> NONE,
             linkedin_post_id |-> NONE,
             posting_status |-> "pending",
             workflow_status |-> "initialized",
             error_message |-> NONE,
             messages |-> <<Msg("system", "LinkedIn Content Automation Agent initialized"),
                            Msg("user", "Please create LinkedIn content")>>]
    IN  Leaving(state,
            IF topic # "" THEN {Ret(Initialized(topic))}
            ELSE IF messages = <<>> THEN {Raise}
            ELSE {Raise} \cup (IF fromMsgs = "" THEN {} ELSE {Ret(Initialized(fromMsgs))}))

\* scraping_node: raises without topic or token; the scraper returns 0..n
\* videos (it swallows its own errors); any other exception gives a failure
scraping_node(state, environ) ==
    LET topic == Get(state, "topic", "")
        Completed(n) ==
            [scraped_content |-> SubSeq(Videos, 1, n),
             scraping_status |-> "completed",
             workflow_status |-> "scraping",
             messages |-> <<Msg("system", "Successfully scraped YouTube videos")>>]
        Failed ==
            [scraping_status |-> "failed",
             scraping_errors |-> <<"Error during scraping">>,
             workflow_status |-> "failed",
             error_message |-> "Error during scraping",
             messages |-> <<Msg("system", "Scraping failed")>>]
        InProgress ==
            DictUpdate(state, [scraping_status |-> "in_progress",
                               workflow_status |-> "scraping"])
    IN  IF topic = "" THEN Leaving(state, {Raise})
        ELSE IF "APIFY_TOKEN" \notin environ THEN Leaving(state, {Raise})
        ELSE Leaving(InProgress,
                     {Ret(Completed(n)) : n \in 0..MaxVideos} \cup {Ret(Failed)})

\* the lists generate_content_ideas can return: one ContentIdea per entry of
\* the model's envelope, or what the fallback splits out of the text
generate_content_ideas == IdeaLists

extract_ideas_node(state, environ) ==
    LET scraped_content == Get(state, "scraped_content", <<>>)
        NoContent ==
            [content_ideas |-> <<>>,
             workflow_status |-> "failed",
             error_message |-> "No scraped content available for idea extraction",
             messages |-> <<Msg("system", "No scraped content available for idea extraction")>>]
        Generated(ideas) ==
            [content_ideas |-> ideas,
             workflow_status |-> "awaiting_choice",
             messages |-> <<Msg("system", "Successfully generated content ideas")>>]
        Failed ==
            [content_ideas |-> <<>>,
             workflow_status |-> "failed",
             error_message |-> "Error during idea extraction",
             messages |-> <<Msg("system", "Idea extraction failed")>>]
        Generating == DictUpdate(state, [workflow_status |-> "generating"])
    IN  IF "GROQ_API_KEY" \notin environ THEN Leaving(state, {Raise})
        ELSE IF scraped_content = <<>> THEN Leaving(state, {Ret(NoContent)})
        ELSE Leaving(Generating,
                     {Ret(Generated(ideas)) : ideas \in generate_content_ideas}
                     \cup {Ret(Failed)})

ExpectedTwoMsg(n) ==
    CASE n = 1 -> "Expected 2 content ideas, but found 1"
      [] n = 3 -> "Expected 2 content ideas, but found 3"
      [] OTHER -> "Expected 2 content ideas, but found more"

InvalidChoiceMsg_generic(c) == "Invalid choice. Please choose 1 or 2."
InvalidChoiceMsg(c) ==
    CASE c = 0 -> "Invalid choice: 0. Please choose 1 or 2."
      [] c = 3 -> "Invalid choice: 3. Please choose 1 or 2."
      [] OTHER -> "Invalid choice. Please choose 1 or 2."

\* seq[i] of a Python list (0-based)
PyIndex(seq, i) == seq[i + 1]

\* the count check of choice_node: anything but two ideas is rejected
idea_count_invalid_lt2(content_ideas) == Len(content_ideas) < 2
idea_count_invalid(content_ideas) == Len(content_ideas) # 2

\* the idea choice_node picks for a valid choice (1-based choice, 0-based list)
select_idea_swapped(content_ideas, user_choice) == PyIndex(content_ideas, 2 - user_choice)
select_idea(content_ideas, user_choice) == PyIndex(content_ideas, user_choice - 1)

\* choice_node; user_choice is None exactly when the key is absent
choice_node(state) ==
    LET content_ideas == Get(state, "content_ideas", <<>>)
    IN  IF content_ideas = <<>>
        THEN [workflow_status |-> "failed",
              error_message |-> "No content ideas available for selection",
              messages |-> <<Msg("system", "No content ideas available for selection")>>]
        ELSE IF idea_count_invalid(content_ideas)
        THEN [workflow_status |-> "failed",
              error_message |-> ExpectedTwoMsg(Len(content_ideas)),
              messages |-> <<Msg("system", ExpectedTwoMsg(Len(content_ideas)))>>]
        ELSE IF "user_choice" \notin DOMAIN state
        THEN [workflow_status |-> "awaiting_choice",
              messages |-> <<Msg("system", "Content ideas generated successfully. Awaiting user choice.")>>]
        ELSE IF state["user_choice"] \notin {1, 2}
        THEN [workflow_status |-> "failed",
              error_message |-> InvalidChoiceMsg(state["user_choice"]),
              messages |-> <<Msg("system", InvalidChoiceMsg(state["user_choice"]))>>]
        ELSE [selected_idea |-> select_idea(content_ideas, state["user_choice"]),
              workflow_status |-> "idea_selected",
              messages |-> <<Msg("system", "Selected idea")>>]

\* content_writer_node: the draft is whatever post the extraction builds
\* from the model's text; an exception of the model call gives a failure
content_writer_node(state, environ) ==
    LET selected_idea == Get(state, "selected_idea", NONE)
        NoIdea ==
            [workflow_status |-> "failed",
             error_message |-> "No selected idea available for content writing",
             messages |-> <<Msg("system", "No selected idea available for content writing")>>]
        Written(post) ==
            [linkedin_post |-> post,
             writing_status |-> "completed",
             workflow_status |-> "writing_completed",
             messages |-> <<Msg("system", "Successfully created LinkedIn post")>>]
        Failed ==
            [linkedin_post |-> NONE,
             writing_status |-> "failed",
             workflow_status |-> "failed",
             error_message |-> "Error during content writing",
             messages |-> <<Msg("system", "Content writing failed")>>]
        Writing == DictUpdate(state, [workflow_status |-> "writing"])
    IN  IF "GROQ_API_KEY" \notin environ THEN Leaving(state, {Raise})
        ELSE IF selected_idea = NONE THEN Leaving(state, {Ret(NoIdea)})
        ELSE Leaving(Writing, {Ret(Written(post)) : post \in Posts} \cup {Ret(Failed)})

\* ------------------------------------------------------------ the image job
\* generate_image_with_kie_ai: the polling budget, the sleep between two
\* polls and the timeout of one HTTP request, in seconds
max_wait_time == 120
poll_interval == 5
request_timeout == 30

\* what the backend can answer to the submit request, to a status poll, to
\* the download-url request and to the download
SubmitAnswers == {"task_id", "http_error", "no_task_id", "network_error"}

PollAnswers ==
    {"PENDING",            \* any status other than SUCCESS and FAILED
     "SUCCESS_NO_RESULT",  \* status SUCCESS without response.resultUrls
     "SUCCESS_URL",        \* status SUCCESS, resultUrls[0] is a URL
     "SUCCESS_EMPTY_URL",  \* status SUCCESS, resultUrls[0] is empty
     "FAILED",
     "http_error", "api_error", "network_error"}

ResolveAnswers == {"direct_url", "http_error", "api_error", "no_url", "network_error"}

FetchAnswers == {"bytes", "error"}

\* the errorMessage texts a FAILED answer carries
BackendMessages ==
    {"content policy violation", "Image generation timed out or imageUrl not found."}

\* how long one status poll takes
PollLatencies == {0, request_timeout}

\* the while condition of the polling loop
budget_left_inclusive(elapsed) == elapsed <= max_wait_time
budget_left(elapsed) == elapsed < max_wait_time

\* the answers after which the loop sleeps and polls again
keeps_polling_on_failed(answer) == answer \in {"PENDING", "SUCCESS_NO_RESULT", "FAILED"}
keeps_polling(answer) == answer \in {"PENDING", "SUCCESS_NO_RESULT"}

\* the results of the job: the image, or an exception with its cause (and
\* the backend's errorMessage for a FAILED answer)
NoResult == [kind |-> "none", cause |-> NONE, errorMessage |-> NONE]
ImageResult == [kind |-> "image", cause |-> NONE, errorMessage |-> NONE]
JobException(cause) == [kind |-> "exception", cause |-> cause, errorMessage |-> NONE]
RemoteFailed(errorMessage) ==
    [kind |-> "exception", cause |-> "remote_failed", errorMessage |-> errorMessage]
TimedOut == JobException("timed_out")

JobCauses ==
    {"network", "submit_http", "no_task_id", "status_http", "status_api",
     "timed_out", "resolve_http", "resolve_api", "no_direct_url", "download"}

\* every result generate_image_with_kie_ai can have in the environment
generate_image_with_kie_ai(environ) ==
    IF "KIE_API_KEY" \notin environ THEN {JobException("key_not_set")}
    ELSE {ImageResult} \cup {JobException(c) : c \in JobCauses}
         \cup {RemoteFailed(m) : m \in BackendMessages}

\* the error_message image_generation_node builds from the exception: its
\* own prefix, the prefix the job's except clause adds, and the message
\* raised inside the job
error_msg_unwrapped(e) ==
    CASE e.cause = "key_not_set" ->
           "Error during image generation: KIE_API_KEY environment variable not set"
      [] e.cause = "network" ->
           "Error during image generation: Network error during image generation"
      [] e.cause = "submit_http" ->
           "Error during image generation: Image generation failed: KIE AI API error"
      [] e.cause = "no_task_id" ->
           "Error during image generation: Image generation failed: No task ID received from KIE AI API"
      [] e.cause = "status_http" ->
           "Error during image generation: Image generation failed: Status check failed"
      [] e.cause = "status_api" ->
           "Error during image generation: Image generation failed: Status check error"
      [] e.cause = "remote_failed" /\ e.errorMessage = "content policy violation" ->
           "Error during image generation: Image generation failed: content policy violation"
      [] e.cause = "remote_failed" ->
           "Error during image generation: Image generation failed: Image generation timed out or imageUrl not found."
      [] e.cause = "timed_out" ->
           "Error during image generation: Image generation failed: Image generation timed out or imageUrl not found."
      [] e.cause = "resolve_http" ->
           "Error during image generation: Image generation failed: Download URL API error"
      [] e.cause = "resolve_api" ->
           "Error during image generation: Image generation failed: Download URL API error: Unknown error"
      [] e.cause = "no_direct_url" ->
           "Error during image generation: Image generation failed: No direct download URL returned from API"
      [] OTHER ->
           "Error during image generation: Image generation failed: Failed to download and save image"

error_msg(e) ==
    CASE e.cause = "key_not_set" ->
           "Error during image generation: KIE_API_KEY environment variable not set"
      [] e.cause = "network" ->
           "Error during image generation: Network error during image generation"
      [] e.cause = "submit_http" ->
           "Error during image generation: Image generation failed: KIE AI API error"
      [] e.cause = "no_task_id" ->
           "Error during image generation: Image generation failed: No task ID received from KIE AI API"
      [] e.cause = "status_http" ->
           "Error during image generation: Image generation failed: Status check failed"
      [] e.cause = "status_api" ->
           "Error during image generation: Image generation failed: Status check error"
      [] e.cause = "remote_failed" /\ e.errorMessage = "content policy violation" ->
           "Error during image generation: Image generation failed: Image generation failed: content policy violation"
      [] e.cause = "remote_failed" ->
           "Error during image generation: Image generation failed: Image generation failed: Image generation timed out or imageUrl not found."
      [] e.cause = "timed_out" ->
           "Error during image generation: Image generation failed: Image generation timed out or imageUrl not found."
      [] e.cause = "resolve_http" ->
           "Error during image generation: Image generation failed: Download URL API error"
      [] e.cause = "resolve_api" ->
           "Error during image generation: Image generation failed: Download URL API error: Unknown error"
      [] e.cause = "no_direct_url" ->
           "Error during image generation: Image generation failed: No direct download URL returned from API"
      [] OTHER ->
           "Error during image generation: Image generation failed: Failed to download and save image"

\* what image_generation_node returns for a result of the image job
ImageDelta(linkedin_post, r) ==
    IF r.kind = "image"
    THEN [generated_image |-> ImageFor(linkedin_post),
          image_status |-> "completed",
          workflow_status |-> "imaging_completed",
          messages |-> <<Msg("system", "Successfully generated image")>>]
    ELSE [generated_image |-> NONE,
          image_status |-> "failed",
          workflow_status |-> "failed",
          error_message |-> error_msg(r),
          messages |-> <<Msg("system", "Image generation failed")>>]

\* image_generation_node: every error of the image job (a missing key
\* included) is caught and reported as a failure
image_generation_node(state, environ) ==
    LET linkedin_post == Get(state, "linkedin_post", NONE)
        NoPost ==
            [workflow_status |-> "failed",
             error_message |-> "No LinkedIn post available for image generation",
             messages |-> <<Msg("system", "No LinkedIn post available for image generation")>>]
        Imaging == DictUpdate(state, [workflow_status |-> "imaging"])
    IN  IF linkedin_post = NONE THEN Leaving(state, {Ret(NoPost)})
        ELSE Leaving(Imaging,
                     {Ret(ImageDelta(linkedin_post, r)) :
                         r \in generate_image_with_kie_ai(environ)})

\* --------------------------------------------------- the publishing node
\* what post_to_linkedin_rest_api returns: a dict with the keys id, url,
\* response and note, for a created post or for each way it can fail
PostResult(id, url, status, note) ==
    [id |-> id, url |-> url, response |-> status, note |-> note]

post_to_linkedin_rest_api(generated_image) ==
    {PostResult("userinfo_error", NONE, "error",
                "Could not retrieve user URN from /userinfo endpoint"),
     PostResult("api_error", NONE, "error", "LinkedIn API returned an error status"),
     PostResult("exception", NONE, "error", "Exception occurred during API call"),
     PostResult("urn:li:share:1", "https://www.linkedin.com/feed/update/urn:li:share:1/",
                "ok", "Successfully posted to LinkedIn")}
    \cup (IF generated_image # NONE
          THEN {PostResult("image_upload_failed", NONE, "error",
                           "Image upload failed, post not created.")}
          ELSE {})

linkedin_posting_node(state, environ) ==
    LET linkedin_post == Get(state, "linkedin_post", NONE)
        generated_image == Get(state, "generated_image", NONE)
        Failed(err, msg) ==
            [workflow_status |-> "failed",
             posting_status |-> "failed",
             error_message |-> err,
             messages |-> <<Msg("system", msg)>>]
        Posting ==
            DictUpdate(state, [workflow_status |-> "posting",
                               posting_status |-> "in_progress"])
    IN  IF linkedin_post = NONE
        THEN Leaving(state,
                     {Ret(Failed("No LinkedIn post available for posting",
                                 "No LinkedIn post found in state."))})
        ELSE IF ~({"LINKEDIN_ACCESS_TOKEN", "LINKEDIN_CLIENT_ID",
                   "LINKEDIN_CLIENT_SECRET"} \subseteq environ)
        THEN Leaving(state,
                     {Ret(Failed("LinkedIn credentials not found in environment variables",
                                 "LinkedIn credentials not found in environment."))})
        ELSE Leaving(Posting,
                     {Ret(r) : r \in post_to_linkedin_rest_api(generated_image)}
                     \cup {Ret(Failed("Error during LinkedIn posting",
                                      "LinkedIn posting failed"))})

\* -------------------------------------------- product-promotion graph nodes
product_info_node_other_status(state) ==
    Leaving(state,
            {Ret([product_data |-> "product",
                  promotion_status |-> "info_collected",
                  workflow_status |-> "promotion",
                  messages |-> <<Msg("system", "Product information collected")>>])})

product_info_node(state) ==
    Leaving(state,
            {Ret([product_data |-> "product",
                  promotion_status |-> "collecting_info",
                  workflow_status |-> "promotion",
                  messages |-> <<Msg("system", "Product information collected")>>])})

image_upload_node(state) ==
    Leaving(state,
            {Ret([uploaded_images |-> SubSeq(<<"up1", "up2", "up3">>, 1, n),
                  promotion_status |-> "uploading_images",
                  workflow_status |-> "promotion",
                  messages |-> <<Msg("system", "Uploaded images for promotion")>>])
                : n \in 0..MaxUploads})

\* promotional_content_node: a parsed post or the fallback post, both
\* returned with the same keys; an exception of the model call is a failure
promotional_content_node(state, environ) ==
    LET product_data == Get(state, "product_data", NONE)
        NoData ==
            [workflow_status |-> "failed",
             error_message |-> "No product data available for content generation",
             messages |-> <<Msg("system", "No product data available for content generation")>>]
        Created(post) ==
            [linkedin_post |-> post,
             promotion_status |-> "generating_content",
             workflow_status |-> "promotion",
             messages |-> <<Msg("system", "Created promotional LinkedIn post")>>]
        Failed ==
            [linkedin_post |-> NONE,
             promotion_status |-> "failed",
             workflow_status |-> "failed",
             error_message |-> "Error during promotional content generation",
             messages |-> <<Msg("system", "Promotional content generation failed")>>]
        GeneratingContent ==
            DictUpdate(state, [promotion_status |-> "generating_content"])
    IN  IF "GROQ_API_KEY" \notin environ THEN Leaving(state, {Raise})
        ELSE IF product_data = NONE THEN Leaving(state, {Ret(NoData)})
        ELSE Leaving(GeneratingContent,
                     {Ret(Created(post)) : post \in Posts} \cup {Ret(Failed)})

pdf_generation_node(state) ==
    LET linkedin_post == Get(state, "linkedin_post", NONE)
        NoPost ==
            [workflow_status |-> "failed",
             error_message |-> "No LinkedIn post available for PDF generation",
             messages |-> <<Msg("system", "No LinkedIn post available for PDF generation")>>]
        Created ==
            [pdf_path |-> "output/promotional_content.pdf",
             promotion_status |-> "creating_pdf",
             workflow_status |-> "promotion",
             messages |-> <<Msg("system", "Successfully created PDF")>>]
        Failed ==
            [pdf_path |-> NONE,
             promotion_status |-> "failed",
             workflow_status |-> "failed",
             error_message |-> "Error during PDF generation",
             messages |-> <<Msg("system", "PDF generation failed")>>]
        CreatingPdf == DictUpdate(state, [promotion_status |-> "creating_pdf"])
    IN  IF linkedin_post = NONE THEN Leaving(state, {Ret(NoPost)})
        ELSE Leaving(CreatingPdf, {Ret(Created), Ret(Failed)})

\* approval_node: the operator answers yes or no
approval_node(state) ==
    LET linkedin_post == Get(state, "linkedin_post", NONE)
        NoPost ==
            [workflow_status |-> "failed",
             error_message |-> "No LinkedIn post available for approval",
             messages |-> <<Msg("system", "No LinkedIn post available for approval")>>]
        Decided(user_approval, msg) ==
            [user_approval |-> user_approval,
             promotion_status |-> "awaiting_approval",
             workflow_status |-> "promotion",
             messages |-> <<Msg("system", msg)>>]
    IN  Leaving(state,
            IF linkedin_post = NONE THEN {Ret(NoPost)}
            ELSE {Ret(Decided(PyTrue, "User approved the promotional content for LinkedIn posting")),
                  Ret(Decided(PyFalse, "User rejected the promotional content"))})

\* ------------------------------------------------------------- the edges
route_after_choice_always(state) == "content_writer"

route_after_choice(state) ==
    IF Get(state, "selected_idea", NONE) # NONE THEN "content_writer" ELSE "__end__"

route_after_approval_not_false(state) ==
    IF Get(state, "user_approval", NONE) # PyFalse THEN "linkedin_posting" ELSE "__end__"

route_after_approval(state) ==
    IF Get(state, "user_approval", NONE) = PyTrue THEN "linkedin_posting" ELSE "__end__"

\* the node that follows `node` in the main graph, given the merged state
MainNext(node, state) ==
    CASE node = "input" -> "scraping"
      [] node = "scraping" -> "extract_ideas"
      [] node = "extract_ideas" -> "choice"
      [] node = "choice" -> route_after_choice(state)
      [] node = "content_writer" -> "image_generation"
      [] OTHER -> "__end__"

\* the node that follows `node` in the product-promotion graph
PromoNext(node, state) ==
    CASE node = "product_info" -> "image_upload"
      [] node = "image_upload" -> "promotional_content"
      [] node = "promotional_content" -> "pdf_generation"
      [] node = "pdf_generation" -> "approval"
      [] node = "approval" -> route_after_approval(state)
      [] OTHER -> "__end__"

\* ------------------------------------------------------------------ state
VARIABLES
    mode,        \* which entry point runs: "main" (run_linkedin_agent),
                 \* "interactive" (run_linkedin_agent_interactive),
                 \* "promotion" (run_product_promotion_workflow)
    env,         \* the environment variables that are set
    topicArg,    \* the topic argument of the entry point
    choiceArg,   \* the user_choice argument: {} for None, {c} for c
    pc,          \* "start", the node to invoke next, "ask_choice",
                 \* "ask_action", "done" or "raised"
    inGraph,     \* TRUE while graph.invoke is running
    st,          \* the run state (graph channels, then the result dict)
    userAction,  \* the operator's answer to post/regenerate, "none" before
    invoked,     \* history: the nodes invoked so far, in order
    lastDelta,   \* history: the delta merged by the last step, if any
    failedRet,   \* history: some node returned workflow_status = "failed"
    argBefore,   \* history: the dict handed to the last node invoked, as it
                 \* was when the node was called
    argAfter,    \* history: the same dict when the node had finished
    job          \* the image job: its position, its clock and its history

runVars == <<mode, env, topicArg, choiceArg, pc, inGraph, st, userAction,
             invoked, lastDelta, failedRet, argBefore, argAfter>>

vars == <<runVars, job>>

\* the image job before generate_image_with_kie_ai is entered
JobInit ==
    [pc |-> "check_key",    \* check_key, submit, loop, resolve, fetch, return, done
     elapsed |-> 0,         \* time.time() - start_time
     calls |-> <<>>,        \* history: the requests sent, in order
     polls |-> 0,           \* history: the number of status polls sent
     pollAt |-> 0,          \* history: elapsed when the last poll was sent
     pendings |-> 0,        \* history: the number of polls answered PENDING
     lastAnswer |-> NONE,   \* history: the answer to the last request
     sawStatus |-> {},      \* history: the SUCCESS/FAILED answers polls got
     terminalAt |-> 0,      \* history: the poll answered SUCCESS_URL or FAILED
     direct |-> FALSE,      \* history: /download-url returned a direct URL
     slow |-> FALSE,        \* history: some poll took time
     exhausted |-> FALSE,   \* history: the loop ended by its while condition
     result |-> NoResult]   \* the image or the exception

Modes == {"main", "interactive", "promotion"}

UserChoices == {{}} \cup {{c} : c \in 0..3}

Init ==
    /\ mode \in Modes
    /\ env \in SUBSET EnvVars
    /\ topicArg \in (IF mode = "promotion" THEN {"product_promotion"} ELSE Topics)
    /\ choiceArg \in (IF mode = "main" THEN UserChoices ELSE {{}})
    /\ pc = "start"
    /\ inGraph = FALSE
    /\ st = EmptyDict
    /\ userAction = "none"
    /\ invoked = <<>>
    /\ lastDelta = EmptyDict
    /\ failedRet = FALSE
    /\ argBefore = EmptyDict
    /\ argAfter = EmptyDict
    /\ job = JobInit

\* the inputs each entry point hands to graph.invoke
MainInputs(topic, choice) ==
    LET base == [topic |-> topic,
                 messages |-> <<Msg("user", CreateAbout(topic))>>]
    IN  IF choice = {} THEN base
        ELSE DictUpdate(base, [user_choice |-> CHOOSE c \in choice : TRUE])

PromoInputs ==
    [topic |-> "product_promotion",
     messages |-> <<Msg("user", "Create promotional LinkedIn content for a product or work")>>,
     workflow_status |-> "promotion",
     promotion_status |-> "pending"]

\* the entry point builds its inputs and graph.invoke writes them to the
\* channels of the graph
Start ==
    /\ pc = "start"
    /\ st' = GraphMerge(EmptyDict,
                        IF mode = "promotion" THEN PromoInputs
                        ELSE MainInputs(topicArg, choiceArg))
    /\ pc' = IF mode = "promotion" THEN "product_info" ELSE "input"
    /\ inGraph' = TRUE
    /\ lastDelta' = EmptyDict
    /\ UNCHANGED <<mode, env, topicArg, choiceArg, userAction, invoked, failedRet,
                   argBefore, argAfter, job>>

GraphNext(node, state) ==
    IF mode = "promotion" THEN PromoNext(node, state) ELSE MainNext(node, state)

\* where the entry point continues once graph.invoke has returned
AfterInvoke(state) ==
    IF mode = "interactive" /\ Get(state, "workflow_status", NONE) = "awaiting_choice"
    THEN "ask_choice"
    ELSE "done"

\* One invocation of `node` on the dict `arg` with outcome o.  Inside graph.invoke the delta is
\* merged by the graph and the edges choose the next node; a delta that
\* writes no declared key is either ignored or rejected by the graph.  In
\* the interactive continuation the delta is merged with result.update and
\* the caller continues at one of directNext.
Step(node, arg, o, directNext) ==
    /\ pc = node
    /\ invoked' = Append(invoked, node)
    /\ argBefore' = arg
    /\ argAfter' = o.state
    /\ UNCHANGED job
    /\ failedRet' = (failedRet \/
                     (~o.raised /\ Get(o.delta, "workflow_status", NONE) = "failed"))
    /\ UNCHANGED <<mode, env, topicArg, choiceArg, userAction>>
    /\ IF o.raised
       THEN /\ pc' = "raised"
            /\ UNCHANGED <<st, inGraph>>
            /\ lastDelta' = EmptyDict
       ELSE IF inGraph
       THEN \E accepted \in (IF DOMAIN o.delta \cap StateKeys = {} THEN BOOLEAN ELSE {TRUE}) :
              IF accepted
              THEN /\ st' = GraphMerge(st, o.delta)
                   /\ lastDelta' = o.delta
                   /\ LET nxt == GraphNext(node, st')
                      IN  /\ pc' = IF nxt = "__end__" THEN AfterInvoke(st') ELSE nxt
                          /\ inGraph' = (nxt # "__end__")
              ELSE /\ pc' = "raised"
                   /\ UNCHANGED <<st, inGraph>>
                   /\ lastDelta' = EmptyDict
       ELSE /\ st' = DictUpdate(st, o.delta)
            /\ lastDelta' = o.delta
            /\ pc' \in directNext
            /\ UNCHANGED inGraph

InputNode == \E o \in input_node(st) : Step("input", st, o, {"done"})

ScrapingNode == \E o \in scraping_node(st, env) : Step("scraping", st, o, {"done"})

ExtractIdeasNode ==
    \E o \in extract_ideas_node(st, env) : Step("extract_ideas", st, o, {"done"})

ChoiceNode ==
    /\ pc = "choice"
    /\ \E o \in Leaving(st, {Ret(choice_node(st))}) : Step("choice", st, o, {"done"})

\* run_linkedin_agent_interactive after graph.invoke returned
\* 'awaiting_choice': the operator enters 1 or 2 and the choice, the chosen
\* idea and the status are written into result
OperatorChoice ==
    /\ pc = "ask_choice"
    /\ \E user_choice \in {1, 2} :
         LET content_ideas == Get(st, "content_ideas", <<>>)
         IN  IF user_choice - 1 < Len(content_ideas)
             THEN /\ st' = DictUpdate(st,
                             [user_choice |-> user_choice,
                              selected_idea |-> PyIndex(content_ideas, user_choice - 1),
                              workflow_status |-> "idea_selected"])
                  /\ pc' = "content_writer"
             ELSE /\ pc' = "raised"
                  /\ st' = st
    /\ lastDelta' = EmptyDict
    /\ UNCHANGED <<mode, env, topicArg, choiceArg, inGraph, userAction, invoked, failedRet,
                   argBefore, argAfter, job>>

\* the state dicts the interactive runner builds for its direct calls
content_state_rescrape ==
    [topic |-> topicArg,
     scraped_content |-> <<>>,
     selected_idea |-> Get(st, "selected_idea", NONE),
     workflow_status |-> "idea_selected"]

content_state ==
    [topic |-> topicArg,
     scraped_content |-> Get(st, "scraped_content", <<>>),
     selected_idea |-> Get(st, "selected_idea", NONE),
     workflow_status |-> "idea_selected"]

image_state ==
    [topic |-> topicArg,
     linkedin_post |-> Get(st, "linkedin_post", NONE),
     selected_idea |-> Get(st, "selected_idea", NONE),
     workflow_status |-> "writing_completed"]

post_state ==
    [linkedin_post |-> Get(st, "linkedin_post", NONE),
     generated_image |-> Get(st, "generated_image", NONE),
     topic |-> topicArg,
     workflow_status |-> "ready_to_post"]

\* where the interactive runner goes after content_writer_node returned
AfterWriting_always(content_result) == {"image_generation"}
AfterWriting(content_result) ==
    IF Get(content_result, "workflow_status", NONE) = "writing_completed"
    THEN {"image_generation"}
    ELSE {"done"}

\* where it goes after image_generation_node returned and result was
\* updated: on success the PDF is saved (which may raise), then the first
\* pass asks post/regenerate and the regenerate pass returns
AfterImaging_asks_again(image_result, result) ==
    IF Get(image_result, "workflow_status", NONE) = "imaging_completed"
    THEN IF Get(result, "linkedin_post", NONE) # NONE
            /\ Get(result, "generated_image", NONE) # NONE
         THEN {"ask_action", "raised"}
         ELSE {"done"}
    ELSE {"done"}
AfterImaging(image_result, result) ==
    IF Get(image_result, "workflow_status", NONE) = "imaging_completed"
    THEN IF userAction = "regenerate"
         THEN {"done", "raised"}
         ELSE IF Get(result, "linkedin_post", NONE) # NONE
                 /\ Get(result, "generated_image", NONE) # NONE
              THEN {"ask_action", "raised"}
              ELSE {"done"}
    ELSE {"done"}

ContentWriterNode ==
    LET arg == IF inGraph THEN st ELSE content_state
    IN  \E o \in content_writer_node(arg, env) :
            Step("content_writer", arg, o, AfterWriting(o.delta))

ImageGenerationNode ==
    LET arg == IF inGraph THEN st ELSE image_state
    IN  \E o \in image_generation_node(arg, env) :
            Step("image_generation", arg, o,
                 AfterImaging(o.delta, DictUpdate(st, o.delta)))

\* the operator types 'post' or 'regenerate'
OperatorAction ==
    /\ pc = "ask_action"
    /\ \E user_action \in {"post", "regenerate"} :
         /\ userAction' = user_action
         /\ pc' = IF user_action = "post" THEN "linkedin_posting" ELSE "content_writer"
    /\ lastDelta' = EmptyDict
    /\ UNCHANGED <<mode, env, topicArg, choiceArg, inGraph, st, invoked, failedRet,
                   argBefore, argAfter, job>>

LinkedinPostingNode ==
    LET arg == IF inGraph THEN st ELSE post_state
    IN  \E o \in linkedin_posting_node(arg, env) :
            Step("linkedin_posting", arg, o, {"done"})

ProductInfoNode ==
    /\ pc = "product_info"
    /\ \E o \in product_info_node(st) : Step("product_info", st, o, {"done"})

ImageUploadNode ==
    /\ pc = "image_upload"
    /\ \E o \in image_upload_node(st) : Step("image_upload", st, o, {"done"})

PromotionalContentNode ==
    \E o \in promotional_content_node(st, env) :
        Step("promotional_content", st, o, {"done"})

PdfGenerationNode ==
    \E o \in pdf_generation_node(st) : Step("pdf_generation", st, o, {"done"})

ApprovalNode == \E o \in approval_node(st) : Step("approval", st, o, {"done"})

Next ==
    \/ Start
    \/ InputNode
    \/ ScrapingNode
    \/ ExtractIdeasNode
    \/ ChoiceNode
    \/ OperatorChoice
    \/ ContentWriterNode
    \/ ImageGenerationNode
    \/ OperatorAction
    \/ LinkedinPostingNode
    \/ ProductInfoNode
    \/ ImageUploadNode
    \/ PromotionalContentNode
    \/ PdfGenerationNode
    \/ ApprovalNode

Spec == Init /\ [][Next]_vars

\* ------------------------------------------- choice_node as a pure function
\* the states choice_node is applied to: every list of up to MaxIdeas ideas,
\* with user_choice absent (None) or one of 0..3
InitChoice ==
    /\ mode = "call"
    /\ env = {}
    /\ topicArg = "ai"
    /\ choiceArg \in UserChoices
    /\ pc = "choice_call"
    /\ inGraph = FALSE
    /\ \E ideas \in IdeaLists :
         st = MainInputs(topicArg, choiceArg) @@ [content_ideas |-> ideas]
    /\ userAction = "none"
    /\ invoked = <<>>
    /\ lastDelta = EmptyDict
    /\ failedRet = FALSE
    /\ argBefore = EmptyDict
    /\ argAfter = EmptyDict
    /\ job = JobInit

\* one call of choice_node; its delta is merged into the state
CallChoiceNode ==
    /\ pc = "choice_call"
    /\ lastDelta' = choice_node(st)
    /\ st' = DictUpdate(st, lastDelta')
    /\ invoked' = Append(invoked, "choice")
    /\ failedRet' = (Get(lastDelta', "workflow_status", NONE) = "failed")
    /\ argBefore' = st
    /\ argAfter' = st
    /\ pc' = "done"
    /\ UNCHANGED <<mode, env, topicArg, choiceArg, inGraph, userAction, job>>

NextChoice == CallChoiceNode

SpecChoice == InitChoice /\ [][NextChoice]_vars

\* ------------------------------- image_generation_node with its image job
\* one direct call of image_generation_node on a state that holds a post,
\* followed step by step through generate_image_with_kie_ai
InitJob ==
    /\ mode = "image_call"
    /\ env \in SUBSET {"KIE_API_KEY"}
    /\ topicArg = "ai"
    /\ choiceArg = {}
    /\ pc = "image_generation"
    /\ inGraph = FALSE
    /\ \E post \in Posts :
         st = [topic |-> topicArg,
               linkedin_post |-> post,
               selected_idea |-> "A",
               workflow_status |-> "writing_completed"]
    /\ userAction = "none"
    /\ invoked = <<>>
    /\ lastDelta = EmptyDict
    /\ failedRet = FALSE
    /\ argBefore = EmptyDict
    /\ argAfter = EmptyDict
    /\ job = JobInit

Raised_retries(j, e) == [j EXCEPT !.result = e]
Raised(j, e) == [j EXCEPT !.pc = "return", !.result = e]

\* os.getenv("KIE_API_KEY"): without the key the job raises at once
JobCheckKey ==
    /\ job.pc = "check_key"
    /\ job' = IF "KIE_API_KEY" \in env
              THEN [job EXCEPT !.pc = "submit"]
              ELSE Raised(job, JobException("key_not_set"))
    /\ UNCHANGED runVars

\* the POST that creates the task; start_time is taken when it has answered
JobSubmit ==
    /\ job.pc = "submit"
    /\ \E answer \in SubmitAnswers :
         LET sent == [job EXCEPT !.calls = Append(@, "submit"), !.lastAnswer = answer]
         IN  job' = CASE answer = "task_id" -> [sent EXCEPT !.pc = "loop", !.elapsed = 0]
                      [] answer = "http_error" -> Raised(sent, JobException("submit_http"))
                      [] answer = "no_task_id" -> Raised(sent, JobException("no_task_id"))
                      [] OTHER -> Raised(sent, JobException("network"))
    /\ UNCHANGED runVars

\* one pass of the while loop: the status poll and what follows its answer
JobPoll ==
    /\ job.pc = "loop"
    /\ budget_left(job.elapsed)
    /\ \E answer \in PollAnswers, latency \in PollLatencies,
          errorMessage \in BackendMessages :
         LET sent == [job EXCEPT
                        !.calls = Append(@, "poll"),
                        !.polls = @ + 1,
                        !.pollAt = job.elapsed,
                        !.elapsed = @ + latency,
                        !.lastAnswer = answer,
                        !.slow = @ \/ latency > 0,
                        !.pendings = IF answer = "PENDING" THEN @ + 1 ELSE @,
                        !.sawStatus =
                            IF answer \in {"SUCCESS_NO_RESULT", "SUCCESS_URL",
                                           "SUCCESS_EMPTY_URL", "FAILED"}
                            THEN @ \cup {answer} ELSE @,
                        !.terminalAt =
                            IF answer \in {"SUCCESS_URL", "FAILED"} /\ @ = 0
                            THEN job.polls + 1 ELSE @]
         IN  job' =
               CASE answer = "network_error" -> Raised(sent, JobException("network"))
                 [] answer = "http_error" -> Raised(sent, JobException("status_http"))
                 [] answer = "api_error" -> Raised(sent, JobException("status_api"))
                 [] keeps_polling(answer) ->
                      [sent EXCEPT !.elapsed = @ + poll_interval]
                 [] answer = "FAILED" ->
                      Raised(sent, RemoteFailed(errorMessage))
                 [] answer = "SUCCESS_URL" -> [sent EXCEPT !.pc = "resolve"]
                 [] OTHER -> Raised(sent, TimedOut)
    /\ UNCHANGED runVars

\* the while condition is false: original_image_url is still None
JobLoopExit ==
    /\ job.pc = "loop"
    /\ ~budget_left(job.elapsed)
    /\ job' = Raised([job EXCEPT !.exhausted = TRUE], TimedOut)
    /\ UNCHANGED runVars

\* the POST to /download-url
JobResolve ==
    /\ job.pc = "resolve"
    /\ \E answer \in ResolveAnswers :
         LET sent == [job EXCEPT !.calls = Append(@, "resolve"), !.lastAnswer = answer]
         IN  job' = CASE answer = "direct_url" ->
                           [sent EXCEPT !.pc = "fetch", !.direct = TRUE]
                      [] answer = "http_error" -> Raised(sent, JobException("resolve_http"))
                      [] answer = "api_error" -> Raised(sent, JobException("resolve_api"))
                      [] answer = "no_url" -> Raised(sent, JobException("no_direct_url"))
                      [] OTHER -> Raised(sent, JobException("network"))
    /\ UNCHANGED runVars

\* download_and_save_image
JobFetch ==
    /\ job.pc = "fetch"
    /\ \E answer \in FetchAnswers :
         LET sent == [job EXCEPT !.calls = Append(@, "fetch"), !.lastAnswer = answer]
         IN  job' = IF answer = "bytes"
                    THEN Raised(sent, ImageResult)
                    ELSE Raised(sent, JobException("download"))
    /\ UNCHANGED runVars

\* image_generation_node returns: the image or the caught exception becomes
\* its delta, which the caller merges with result.update
ImageNodeReturn ==
    /\ job.pc = "return"
    /\ pc = "image_generation"
    /\ job' = [job EXCEPT !.pc = "done"]
    /\ lastDelta' = ImageDelta(st["linkedin_post"], job.result)
    /\ st' = DictUpdate(st, lastDelta')
    /\ invoked' = Append(invoked, "image_generation")
    /\ failedRet' = (lastDelta'["workflow_status"] = "failed")
    /\ argBefore' = st
    /\ argAfter' = DictUpdate(st, [workflow_status |-> "imaging"])
    /\ pc' = "done"
    /\ UNCHANGED <<mode, env, topicArg, choiceArg, inGraph, userAction>>

NextJob ==
    \/ JobCheckKey
    \/ JobSubmit
    \/ JobPoll
    \/ JobLoopExit
    \/ JobResolve
    \/ JobFetch
    \/ ImageNodeReturn

SpecJob == InitJob /\ [][NextJob]_vars

\* --------------------------------- post_to_linkedin_rest_api step by step
\* one call of post_to_linkedin_rest_api(post_text, generated_image); the
\* requests it sends are logged in `invoked`, the dict it returns is
\* lastDelta; file_exists is os.path.exists(generated_image.image_path) and
\* last_answer the answer to the last request
UserinfoAnswers == {"sub", "no_sub", "http_error", "exception"}
RegisterAnswers == {"200", "http_error", "exception"}
PutAnswers == {"200", "201", "202", "http_error", "exception"}
CreateAnswers == {"200", "201", "http_error", "exception"}

InitPublish ==
    /\ mode = "publish_call"
    /\ env \in SUBSET {"LINKEDIN_ACCESS_TOKEN"}
    /\ topicArg = "ai"
    /\ choiceArg = {}
    /\ pc = "check_token"
    /\ inGraph = FALSE
    /\ \E post \in Posts, generated_image \in {NONE} \cup {ImageFor(p) : p \in Posts},
          file_exists \in BOOLEAN :
         /\ generated_image = NONE => ~file_exists
         /\ st = [post_text |-> post,
                  generated_image |-> generated_image,
                  file_exists |-> file_exists,
                  user_urn |-> NONE,
                  image_urn |-> NONE,
                  last_answer |-> NONE]
    /\ userAction = "none"
    /\ invoked = <<>>
    /\ lastDelta = EmptyDict
    /\ failedRet = FALSE
    /\ argBefore = EmptyDict
    /\ argAfter = EmptyDict
    /\ job = JobInit

PublishFrame ==
    UNCHANGED <<mode, env, topicArg, choiceArg, inGraph, userAction, failedRet,
                argBefore, argAfter, job>>

\* the call returns the dict `result`
PublishReturns(result) ==
    /\ pc' = "done"
    /\ lastDelta' = result

PublishCheckToken ==
    /\ mode = "publish_call" /\ pc = "check_token"
    /\ IF "LINKEDIN_ACCESS_TOKEN" \in env
       THEN pc' = "userinfo" /\ UNCHANGED lastDelta
       ELSE PublishReturns(PostResult("no_token", NONE, "error",
                                      "No LinkedIn access token available"))
    /\ UNCHANGED <<st, invoked>>
    /\ PublishFrame

\* get_user_urn_from_userinfo and the test of its result
PublishUserinfo ==
    /\ mode = "publish_call" /\ pc = "userinfo"
    /\ invoked' = Append(invoked, "userinfo")
    /\ \E answer \in UserinfoAnswers :
         IF answer = "sub"
         THEN /\ st' = [st EXCEPT !.user_urn = "urn:li:person:1", !.last_answer = answer]
              /\ pc' = IF st.generated_image # NONE /\ st.file_exists
                       THEN "initializeUpload" ELSE "create_post"
              /\ UNCHANGED lastDelta
         ELSE /\ PublishReturns(PostResult("userinfo_error", NONE, "error",
                     "Could not retrieve user URN from /userinfo endpoint"))
              /\ st' = [st EXCEPT !.last_answer = answer]
    /\ PublishFrame

\* upload_image_to_linkedin, step 1: register the upload
PublishRegister ==
    /\ mode = "publish_call" /\ pc = "initializeUpload"
    /\ invoked' = Append(invoked, "initializeUpload")
    /\ \E answer \in RegisterAnswers :
         /\ st' = [st EXCEPT !.last_answer = answer]
         /\ IF answer = "200"
            THEN pc' = "put_image" /\ UNCHANGED lastDelta
            ELSE PublishReturns(PostResult("image_upload_failed", NONE, "error",
                                           "Image upload failed, post not created."))
    /\ PublishFrame

\* upload_image_to_linkedin, step 2: PUT the file; None is returned for
\* every status but 200, 201, 202 and for every exception
PublishPut ==
    /\ mode = "publish_call" /\ pc = "put_image"
    /\ invoked' = Append(invoked, "put_image")
    /\ \E answer \in PutAnswers :
         IF answer \in {"200", "201", "202"}
         THEN /\ st' = [st EXCEPT !.image_urn = "urn:li:image:1", !.last_answer = answer]
              /\ pc' = "create_post"
              /\ UNCHANGED lastDelta
         ELSE /\ PublishReturns(PostResult("image_upload_failed", NONE, "error",
                                           "Image upload failed, post not created."))
              /\ st' = [st EXCEPT !.last_answer = answer]
    /\ PublishFrame

\* the create-post request to /rest/posts
PublishCreate ==
    /\ mode = "publish_call" /\ pc = "create_post"
    /\ invoked' = Append(invoked, "create_post")
    /\ \E answer \in CreateAnswers :
         /\ st' = [st EXCEPT !.last_answer = answer]
         /\ PublishReturns(
           CASE answer \in {"200", "201"} ->
                  PostResult("urn:li:share:1",
                             "https://www.linkedin.com/feed/update/urn:li:share:1/",
                             "ok", "Successfully posted to LinkedIn")
             [] answer = "http_error" ->
                  PostResult("api_error", NONE, "error",
                             "LinkedIn API returned an error status")
             [] OTHER ->
                  PostResult("exception", NONE, "error",
                             "Exception occurred during API call"))
    /\ PublishFrame

NextPublish ==
    \/ PublishCheckToken
    \/ PublishUserinfo
    \/ PublishRegister
    \/ PublishPut
    \/ PublishCreate

SpecPublish == InitPublish /\ [][NextPublish]_vars

\* ----------------------------------- extraction of posts and ideas from text
\* A text of the generative model is a sequence of lines and a line is a
\* sequence of tokens; <<>> is a blank line, and the empty text has no line.
\* "word" is plain text, "#ai" and "#leadership" match #\w+, "#" is a hash
\* sign that does not, "{json}" is a brace-delimited block.
LineSet ==
    {<<>>, <<"word">>, <<"#ai">>, <<"#leadership">>, <<"#ai", "#leadership">>,
     <<"word", "#ai">>, <<"#">>, <<"{json}">>}

Texts == UNION {[1..n -> LineSet] : n \in 0..MaxLines}

\* the title of the selected idea: ContentIdea.title may be empty
IdeaTitles == {<<>>, <<"AI">>, <<"AI", "Tools!", "&", "Leaders">>}

\* str.strip() of a text: leading and trailing blank lines go
Strip(text) ==
    LET nonBlank == {i \in 1..Len(text) : text[i] # <<>>}
    IN  IF nonBlank = {} THEN <<>>
        ELSE SubSeq(text,
                    CHOOSE i \in nonBlank : \A j \in nonBlank : i <= j,
                    CHOOSE i \in nonBlank : \A j \in nonBlank : j <= i)

\* str.split('\n'): the empty text splits into one empty line
SplitLines(text) == IF text = <<>> THEN << <<>> >> ELSE text

\* re.findall(r'#\w+', line) and re.sub(r'#\w+', '', line)
IsTag_any_hash(token) == token \in {"#ai", "#leadership", "#"}
IsTag(token) == token \in {"#ai", "#leadership"}
NotTag(token) == ~IsTag(token)
NotJson(token) == token # "{json}"

\* the loop of generate_linkedin_post over lines[1:]: blank lines are
\* skipped, hashtags are taken out of a line that has a hash sign, and what
\* is left of the line, if anything, is content
RECURSIVE content_lines(_)
content_lines(lines) ==
    IF lines = <<>> THEN <<>>
    ELSE LET line == Head(lines)
             content_line == SelectSeq(line, NotTag)
         IN  (IF line = <<>> \/ content_line = <<>> THEN <<>> ELSE <<content_line>>)
             \o content_lines(Tail(lines))

RECURSIVE hashtags_of(_)
hashtags_of(lines) ==
    IF lines = <<>> THEN <<>>
    ELSE SelectSeq(Head(lines), IsTag) \o hashtags_of(Tail(lines))

\* f"#{re.sub(r'[^a-zA-Z0-9]', '', word).lower()}"
Hashtag(word) ==
    CASE word = "AI" -> "#ai"
      [] word = "Tools!" -> "#tools"
      [] word = "&" -> "#"
      [] word = "Leaders" -> "#leaders"
      [] word = "word" -> "#word"
      [] word = "#ai" -> "#ai"
      [] word = "#leadership" -> "#leadership"
      [] word = "#" -> "#"
      [] OTHER -> "#json"

\* the hashtags made from the first three words of the idea's title
title_hashtags_all_words(idea_title) ==
    [i \in 1..Len(idea_title) |-> Hashtag(idea_title[i])]

title_hashtags(idea_title) ==
    [i \in 1..(IF Len(idea_title) < 3 THEN Len(idea_title) ELSE 3) |->
        Hashtag(idea_title[i])]

LinkedInPost(title, content, hashtags) ==
    [title |-> title, content |-> content, hashtags |-> hashtags,
     call_to_action |-> "Connect with me for more insights!",
     estimated_engagement |-> "Medium"]

\* the parse of generate_linkedin_post with its fallbacks for the content
generate_linkedin_post(response_content, idea_title) ==
    LET response_text == Strip(response_content)
        lines == SplitLines(response_text)
        title == Head(lines)
        hashtags == hashtags_of(Tail(lines))
        content1 == content_lines(Tail(lines))
        content2 == IF content1 = <<>> THEN Strip(Tail(lines)) ELSE content1
        content3 == IF content2 = <<>> THEN response_text ELSE content2
    IN  LinkedInPost(title, content3,
                     IF hashtags = <<>> THEN title_hashtags(idea_title) ELSE hashtags)

ContentPlaceholder ==
    << <<"[Content could not be extracted. Please review the AI response above.]">> >>

\* create_fallback_post: brace-delimited blocks are removed first
create_fallback_post(response_text, idea_title) ==
    LET cleaned_text == [i \in 1..Len(response_text) |->
                            SelectSeq(response_text[i], NotJson)]
        content == Strip(cleaned_text)
        lines == SplitLines(content)
        title == IF Head(lines) # <<>> THEN Head(lines) ELSE idea_title
        rest == IF Len(lines) > 1 THEN Strip(Tail(lines)) ELSE <<>>
        after_title ==
            IF content # <<>> /\ Head(content) = title THEN Strip(Tail(content))
            ELSE content
        post_content == IF rest = <<>> THEN after_title ELSE rest
    IN  LinkedInPost(title,
                     IF post_content = <<>> THEN ContentPlaceholder ELSE post_content,
                     title_hashtags(idea_title))

\* A response to the idea prompt: whether a brace-delimited block is found
\* and parses ("none", "valid", "control" for valid once control characters
\* are removed, "invalid"), the entries of its "ideas" list, and the
\* sections the text splits into at blank lines.
EntryKinds == {"full", "partial", "empty", "malformed"}

\* the entry of the 'ideas' list each kind stands for; a malformed entry has
\* a null where ContentIdea declares a str
Entry(kind) ==
    CASE kind = "full" ->
           [title |-> "idea title", description |-> "idea description",
            key_points |-> <<"point 1", "point 2">>,
            target_audience |-> "founders",
            inspiration_sources |-> <<"Video 1">>]
      [] kind = "partial" ->
           [title |-> "idea title", key_points |-> <<"point 1">>]
      [] kind = "empty" -> EmptyDict
      [] OTHER -> [title |-> NONE, description |-> "idea description"]

\* ContentIdea(...) raises a validation error for the entry
entry_invalid(idea_data) ==
    \E k \in {"title", "description", "target_audience"} : Get(idea_data, k, "") = NONE

\* the ContentIdea generate_content_ideas builds from one entry
idea_from_entry(idea_data) ==
    [title |-> Get(idea_data, "title", ""),
     description |-> Get(idea_data, "description", ""),
     key_points |-> Get(idea_data, "key_points", <<>>),
     target_audience |-> Get(idea_data, "target_audience", ""),
     inspiration_sources |-> Get(idea_data, "inspiration_sources", <<>>)]

SectionKinds == {"blank", "short", "long", "long_untitled"}

EntryLists == UNION {[1..n -> EntryKinds] : n \in 0..MaxIdeas}

SectionLists == UNION {[1..n -> SectionKinds] : n \in 1..MaxSections}

Response(json, ideas, sections) == [json |-> json, ideas |-> ideas, sections |-> sections]

Responses ==
    {Response(j, <<>>, s) : j \in {"none", "invalid"}, s \in SectionLists}
    \cup {Response(j, e, <<"short">>) : j \in {"valid", "control"}, e \in EntryLists}
    \cup {Response("valid", e, s) :
             e \in {l \in EntryLists : "malformed" \in Range(l)}, s \in SectionLists}

ContentIdea(title, description, sources) ==
    [title |-> title, description |-> description,
     key_points |-> IF sources = 0 THEN <<>>
                    ELSE <<"Key insight 1", "Key insight 2", "Key insight 3">>,
     target_audience |-> IF sources = 0 THEN ""
                         ELSE "Business professionals and thought leaders",
     inspiration_sources |-> SubSeq(<<"Video 1", "Video 2", "Video 3">>, 1, sources)]

PlaceholderTitle(i) == IF i = 1 THEN "Content Idea 1" ELSE "Content Idea 2"

Min(a, b) == IF a < b THEN a ELSE b

\* create_fallback_ideas: an idea for each of the first two sections that
\* is longer than 50 characters
create_fallback_ideas(sections) ==
    LET first == SubSeq(sections, 1, Min(2, Len(sections)))
        idea(i) ==
            ContentIdea(IF first[i] = "long" THEN "section title"
                        ELSE PlaceholderTitle(i),
                        "section text", Min(3, i))
        kept == {i \in 1..Len(first) : first[i] \in {"long", "long_untitled"}}
    IN  IF kept = {} THEN <<>>
        ELSE IF kept = {1, 2} THEN <<idea(1), idea(2)>>
        ELSE <<idea(CHOOSE i \in kept : TRUE)>>

\* the parse of generate_content_ideas: one ContentIdea per entry of the
\* envelope; without an envelope, or when parsing or building an idea
\* raises, the fallback on the raw text
content_ideas_from(response) ==
    IF response.json \in {"valid", "control"}
       /\ \A i \in 1..Len(response.ideas) : ~entry_invalid(Entry(response.ideas[i]))
    THEN [i \in 1..Len(response.ideas) |-> idea_from_entry(Entry(response.ideas[i]))]
    ELSE create_fallback_ideas(response.sections)

\* the posts a tagged envelope can carry, and the text of the envelope: the
\* brace-delimited block on one line or spread over lines
Envelopes ==
    {[title |-> <<"word">>, content |-> << <<"word">> >>, hashtags |-> <<"#ai">>,
      call_to_action |-> c, estimated_engagement |-> e] :
        c \in {"Connect with me for more insights!", "Follow for more"},
        e \in {"Medium", "High"}}

EnvelopeText(envelope, layout) ==
    IF layout = "compact" THEN << <<"{json}">> >>
    ELSE << <<"{">>, <<"{json}">>, <<"}">> >>

\* the pure functions applied to every text: the run state holds the
\* response, the result is the delta
InitExtract ==
    /\ mode \in {"draft", "draft_fallback", "envelope", "ideas"}
    /\ env = {"GROQ_API_KEY"}
    /\ topicArg = "ai"
    /\ choiceArg = {}
    /\ pc = "extract"
    /\ inGraph = FALSE
    /\ CASE mode = "ideas" ->
              \E response \in Responses : st = [response |-> response]
         [] mode = "envelope" ->
              \E envelope \in Envelopes, layout \in {"compact", "lines"},
                 idea_title \in IdeaTitles :
                   st = [response |-> EnvelopeText(envelope, layout),
                         idea_title |-> idea_title, envelope |-> envelope]
         [] OTHER ->
              \E text \in Texts, idea_title \in IdeaTitles :
                   st = [response |-> text, idea_title |-> idea_title]
    /\ userAction = "none"
    /\ invoked = <<>>
    /\ lastDelta = EmptyDict
    /\ failedRet = FALSE
    /\ argBefore = EmptyDict
    /\ argAfter = EmptyDict
    /\ job = JobInit

Extracted(delta) ==
    /\ pc = "extract"
    /\ pc' = "done"
    /\ lastDelta' = delta
    /\ UNCHANGED <<mode, env, topicArg, choiceArg, inGraph, st, userAction, invoked,
                   failedRet, argBefore, argAfter, job>>

\* the post content_writer_node drafts from a state, the model answering
\* with the text state.response
drafting_extends_tags(state) ==
    LET post == generate_linkedin_post(state.response, state.idea_title)
    IN  IF "linkedin_post" \in DOMAIN state
        THEN [linkedin_post |->
                 [post EXCEPT !.hashtags = state.linkedin_post.hashtags \o @]]
        ELSE [linkedin_post |-> post]
drafting(state) ==
    [linkedin_post |-> generate_linkedin_post(state.response, state.idea_title)]

DraftPost ==
    /\ mode \in {"draft", "envelope"}
    /\ Extracted(drafting(st))

\* the regenerate path: content_writer_node is invoked again on the state
\* that holds the first post, with the same idea and the same answer
Redraft ==
    /\ mode = "draft"
    /\ pc = "done"
    /\ pc' = "redrafted"
    /\ st' = DictUpdate(st, lastDelta)
    /\ lastDelta' = drafting(st')
    /\ UNCHANGED <<mode, env, topicArg, choiceArg, inGraph, userAction, invoked,
                   failedRet, argBefore, argAfter, job>>

DraftFallbackPost ==
    /\ mode = "draft_fallback"
    /\ Extracted([linkedin_post |-> create_fallback_post(st.response, st.idea_title)])

GenerateIdeas ==
    /\ mode = "ideas"
    /\ Extracted([content_ideas |-> content_ideas_from(st.response)])

NextExtract ==
    \/ DraftPost
    \/ Redraft
    \/ DraftFallbackPost
    \/ GenerateIdeas

SpecExtract == InitExtract /\ [][NextExtract]_vars

\* ---------------------------------------------------------------- claims
Last(s) == s[Len(s)]

WorkflowStatus == Get(st, "workflow_status", NONE)

\* C1: inside a graph run, once a stage has returned a delta with
\* workflow_status = 'failed', no further stage is invoked.
C1_NoStageAfterFailure ==
    [][(inGraph /\ failedRet) => invoked' = invoked]_vars

\* C2: once workflow_status is 'failed' it stays 'failed' in every later
\* state of the run and linkedin_posting_node is not invoked any more.
C2_FailureIsTerminal ==
    [][WorkflowStatus = "failed" =>
         /\ Get(st', "workflow_status", NONE) = "failed"
         /\ (invoked' # invoked => Last(invoked') # "linkedin_posting")]_vars

\* C3: for a list [A, B] of exactly two ideas choice_node returns A for
\* user_choice 1 and B for user_choice 2, both with workflow_status
\* 'idea_selected'; with user_choice None it returns 'awaiting_choice' in a
\* delta without selected_idea, and selected_idea stays unset.
C3_ChoiceSelects ==
    (pc = "done" /\ mode = "call" /\ Len(st["content_ideas"]) = 2) =>
        /\ choiceArg = {1} =>
             /\ lastDelta["selected_idea"] = st["content_ideas"][1]
             /\ lastDelta["workflow_status"] = "idea_selected"
        /\ choiceArg = {2} =>
             /\ lastDelta["selected_idea"] = st["content_ideas"][2]
             /\ lastDelta["workflow_status"] = "idea_selected"
        /\ choiceArg = {} =>
             /\ lastDelta["workflow_status"] = "awaiting_choice"
             /\ "selected_idea" \notin DOMAIN lastDelta
             /\ "selected_idea" \notin DOMAIN st

\* C3 witness: choice 2 on two distinct ideas has returned the second one.
C3_Witness ==
    /\ pc = "done" /\ mode = "call" /\ choiceArg = {2}
    /\ st["content_ideas"] = <<"A", "B">>
    /\ lastDelta["selected_idea"] = "B"

\* the last step invoked `node` and merged the delta it returned
JustInvoked(node) ==
    invoked # <<>> /\ Last(invoked) = node /\ lastDelta # EmptyDict

SelectedIdea == Get(st, "selected_idea", NONE)
ContentIdeas == Get(st, "content_ideas", <<>>)
ErrorMessage == Get(st, "error_message", NONE)

\* C4: after the choice stage the main graph goes to content_writer exactly
\* when selected_idea is set in the merged state, and otherwise ends without
\* content_writer or image_generation; with two ideas and only the choice
\* missing the graph ends in 'awaiting_choice' with no error_message.
C4_RouteAfterChoice ==
    /\ (JustInvoked("choice") /\ mode \in {"main", "interactive"}) =>
         /\ (inGraph /\ pc = "content_writer") <=> SelectedIdea # NONE
         /\ SelectedIdea = NONE => (~inGraph /\ pc \in {"done", "ask_choice"})
         /\ (Len(ContentIdeas) = 2 /\ SelectedIdea = NONE) =>
              (WorkflowStatus = "awaiting_choice" /\ ErrorMessage = NONE)
    /\ (mode = "main" /\ SelectedIdea = NONE) =>
         /\ "content_writer" \notin Range(invoked)
         /\ "image_generation" \notin Range(invoked)

\* C4 witness: a main-graph run has ended after choice, suspended on the
\* missing choice between two ideas.
C4_Witness ==
    /\ mode = "main" /\ pc = "done" /\ JustInvoked("choice")
    /\ ContentIdeas = <<"A", "B">>
    /\ WorkflowStatus = "awaiting_choice"

\* C5: selected_idea is set only if content_ideas holds exactly two ideas
\* and selected_idea is one of them; choice_node invoked with another number
\* of ideas returns 'failed' with an error_message and no selected_idea.
C5_SelectedIdeaOfTwo ==
    /\ SelectedIdea # NONE =>
         (Len(ContentIdeas) = 2 /\ SelectedIdea \in Range(ContentIdeas))
    /\ (JustInvoked("choice") /\ Len(ContentIdeas) # 2) =>
         /\ lastDelta["workflow_status"] = "failed"
         /\ Get(lastDelta, "error_message", NONE) # NONE
         /\ "selected_idea" \notin DOMAIN lastDelta

\* C5 witness: the operator chose the second of two ideas.
C5_Witness ==
    /\ mode = "interactive" /\ pc = "content_writer"
    /\ ContentIdeas = <<"A", "B">> /\ SelectedIdea = "B"

\* C5 witness of the failure case: choice_node rejected three ideas.
C5_WitnessThree ==
    JustInvoked("choice") /\ Len(ContentIdeas) = 3 /\ WorkflowStatus = "failed"

\* C6: linkedin_posting_node is invoked only with user_approval = True after
\* approval (product-promotion graph) or after the operator answered 'post'
\* (interactive runner); False and None route the graph to its end.
C6_PostingNeedsApproval ==
    /\ "linkedin_posting" \in Range(invoked) =>
         \/ (mode = "promotion" /\ Get(st, "user_approval", NONE) = PyTrue
             /\ "approval" \in Range(invoked))
         \/ (mode = "interactive" /\ userAction = "post")
    /\ (JustInvoked("approval") /\ Get(st, "user_approval", NONE) # PyTrue) =>
         (pc = "done" /\ ~inGraph)

\* C6 witness: the promotion graph has invoked linkedin_posting after an
\* approval.
C6_Witness ==
    /\ mode = "promotion" /\ "linkedin_posting" \in Range(invoked)
    /\ Get(st, "user_approval", NONE) = PyTrue

\* C7: the messages list before every step is a prefix of the messages list
\* after it.
C7_MessagesAppendOnly ==
    [][IsPrefix(Get(st, "messages", <<>>), Get(st', "messages", <<>>))]_vars

\* C8: a merge leaves every key absent from the delta unchanged and gives
\* every key of the delta other than messages exactly the delta's value.
C8_MergeFrame ==
    [][lastDelta' # EmptyDict =>
         /\ \A k \in DOMAIN st \ DOMAIN lastDelta' :
              k \in DOMAIN st' /\ st'[k] = st[k]
         /\ \A k \in DOMAIN lastDelta' \ {"messages"} :
              k \in DOMAIN st' /\ st'[k] = lastDelta'[k]]_vars

\* C9: after a merge, error_message is set if and only if some status field
\* equals 'failed'.
C9_ErrorIffFailed ==
    lastDelta # EmptyDict =>
        (ErrorMessage # NONE <=> \E k \in StatusKeys : Get(st, k, NONE) = "failed")

FourValues == {"pending", "in_progress", "completed", "failed"}

\* the values the State declaration lists for promotion_status
PromotionValues ==
    {"pending", "collecting_info", "uploading_images", "generating_content",
     "creating_pdf", "awaiting_approval", "completed", "failed"}

\* C10 (as claimed): every stage-scoped status that is set has one of the
\* four values pending, in_progress, completed, failed.
C10_FourValuesOnly ==
    \A k \in StageStatusKeys : k \in DOMAIN st => st[k] \in FourValues

\* C10 (amended): scraping_status, writing_status, image_status and
\* posting_status, when set, have one of the four values; promotion_status,
\* when set, has one of the values its declaration lists.
C10_StatusValues ==
    /\ \A k \in StageStatusKeys \ {"promotion_status"} :
         k \in DOMAIN st => st[k] \in FourValues
    /\ "promotion_status" \in DOMAIN st => st["promotion_status"] \in PromotionValues

\* C10 witness: the approval stage has left promotion_status at
\* 'awaiting_approval'.
C10_Witness ==
    JustInvoked("approval") /\ Get(st, "promotion_status", NONE) = "awaiting_approval"

\* the stages that have completed when the run suspends for the choice
CompletedStages == {"input", "scraping", "extract_ideas", "choice"}

Occurrences(s, x) == Cardinality({i \in 1..Len(s) : s[i] = x})

\* C11: in one run of the interactive runner each of input_node,
\* scraping_node, extract_ideas_node and choice_node is invoked at most once;
\* once the operator has supplied the choice the run continues with
\* content_writer_node, called with the scraped_content of the state and the
\* idea the operator chose.
C11_ResumeDoesNotRerun ==
    [][mode = "interactive" =>
         /\ \A n \in CompletedStages : Occurrences(invoked', n) <= 1
         /\ (pc = "ask_choice" => pc' = "content_writer")
         /\ (pc = "content_writer" /\ userAction = "none") =>
               /\ Last(invoked') = "content_writer"
               /\ argBefore'["scraped_content"] = st["scraped_content"]
               /\ argBefore'["selected_idea"] =
                      PyIndex(st["content_ideas"], st["user_choice"] - 1)]_vars

\* C11 witness: after the four stages ran once and the operator chose the
\* second idea, content_writer_node has been called with that idea.
C11_Witness ==
    /\ mode = "interactive"
    /\ invoked = <<"input", "scraping", "extract_ideas", "choice", "content_writer">>
    /\ st["content_ideas"] = <<"A", "B">>
    /\ argBefore["selected_idea"] = "B"
    /\ argBefore["scraped_content"] # <<>>

\* the dict the stage at pc is about to be called with, and the outcomes
\* that call can have
StageArg ==
    IF inGraph THEN st
    ELSE CASE pc = "content_writer" -> content_state
           [] pc = "image_generation" -> image_state
           [] pc = "linkedin_posting" -> post_state
           [] OTHER -> st

StageOutcomesIn(environ) ==
    CASE pc = "input" -> input_node(StageArg)
      [] pc = "scraping" -> scraping_node(StageArg, environ)
      [] pc = "extract_ideas" -> extract_ideas_node(StageArg, environ)
      [] pc = "choice" -> Leaving(StageArg, {Ret(choice_node(StageArg))})
      [] pc = "content_writer" -> content_writer_node(StageArg, environ)
      [] pc = "image_generation" -> image_generation_node(StageArg, environ)
      [] pc = "linkedin_posting" -> linkedin_posting_node(StageArg, environ)
      [] pc = "product_info" -> product_info_node(StageArg)
      [] pc = "image_upload" -> image_upload_node(StageArg)
      [] pc = "promotional_content" -> promotional_content_node(StageArg, environ)
      [] pc = "pdf_generation" -> pdf_generation_node(StageArg)
      [] pc = "approval" -> approval_node(StageArg)
      [] OTHER -> {}

StageOutcomes == StageOutcomesIn(env)

\* C12: whatever state and environment a stage is called with, it returns a
\* delta and does not raise; a missing required field is reported as
\* workflow_status = 'failed' with an error_message.
C12_NoStageRaises ==
    \A o \in StageOutcomes :
        /\ ~o.raised
        /\ (pc = "input" /\ Get(StageArg, "topic", "") = "") =>
              /\ Get(o.delta, "workflow_status", NONE) = "failed"
              /\ Get(o.delta, "error_message", NONE) # NONE

\* C13: when check_environment_variables() returned True, a stage raises or
\* returns a failure only in ways it also can with every credential set:
\* no raise and no failure is due to an unset credential variable.
C13_NoMissingCredentialMidRun ==
    check_environment_variables(env) =>
        \A o \in StageOutcomes :
            (o.raised \/ Get(o.delta, "workflow_status", NONE) = "failed")
                => o \in StageOutcomesIn(EnvVars)

\* C14: the dict a stage was called with is the same after the call as it
\* was before the call; what the stage changes is only in its delta.
C14_StageLeavesArgument == argAfter = argBefore

CeilDiv(a, b) == (a + b - 1) \div b

JobEnded == job.pc \in {"return", "done"}

\* C15: with polls that take no time, a backend answering PENDING on polls 1
\* and 2 and SUCCESS with a result on poll 3 gets exactly 3 polls; a backend
\* that always answers PENDING gets exactly ceil(120/5) = 24 polls and the
\* job then ends with the timeout; no poll is sent once elapsed >= 120.
C15_PollCounts ==
    /\ (~job.slow /\ job.pendings = 2 /\ job.terminalAt = 3
           /\ "SUCCESS_URL" \in job.sawStatus)
          => job.polls = 3
    /\ (JobEnded /\ ~job.slow /\ job.polls > 0 /\ job.pendings = job.polls)
          => /\ job.polls = CeilDiv(max_wait_time, poll_interval)
             /\ job.polls = 24
             /\ job.exhausted
             /\ job.result = TimedOut
    /\ job.polls > 0 => job.pollAt < max_wait_time

\* C15 witness: the job has ended after 24 instantaneous polls that were
\* all answered PENDING.
C15_Witness ==
    /\ job.pc = "done"
    /\ ~job.slow
    /\ job.polls = 24
    /\ job.pendings = 24
    /\ job.pollAt = 115
    /\ job.result = TimedOut

\* the other case of C15: three polls, the third answered with the result
C15_WitnessThree ==
    /\ job.pc = "done"
    /\ ~job.slow
    /\ job.polls = 3
    /\ job.pendings = 2
    /\ job.result = ImageResult

\* C16: the job ends with the timeout result only when the budget elapsed
\* and no poll was answered with status SUCCESS or FAILED.
C16_TimeoutOnlyWithoutTerminal ==
    (JobEnded /\ job.result = TimedOut) => (job.exhausted /\ job.sawStatus = {})

\* the deltas image_generation_node returns for each of the three results
TimeoutDeltas == {ImageDelta(p, TimedOut) : p \in Posts}

RemoteFailureDeltas ==
    {ImageDelta(p, RemoteFailed(m)) : p \in Posts, m \in BackendMessages}

SuccessDeltas == {ImageDelta(p, ImageResult) : p \in Posts}

\* C17: what image_generation_node returns after the budget ran out differs
\* from everything it returns after a FAILED answer and after a success,
\* and what it returns after a FAILED answer differs from a success.
C17_ResultsDistinguishable ==
    pc = "done" =>
        /\ job.exhausted =>
              /\ lastDelta \in TimeoutDeltas
              /\ lastDelta \notin RemoteFailureDeltas \cup SuccessDeltas
        /\ job.lastAnswer = "FAILED" =>
              /\ lastDelta \in RemoteFailureDeltas
              /\ lastDelta \notin TimeoutDeltas \cup SuccessDeltas
        /\ job.result = ImageResult =>
              /\ lastDelta \in SuccessDeltas
              /\ lastDelta \notin TimeoutDeltas \cup RemoteFailureDeltas

\* C17 witness: the node has returned after a FAILED answer whose
\* errorMessage is the text of the job's own timeout.
C17_Witness ==
    /\ pc = "done"
    /\ job.lastAnswer = "FAILED"
    /\ job.result = RemoteFailed("Image generation timed out or imageUrl not found.")
    /\ lastDelta["workflow_status"] = "failed"

\* C18: the requests of the job go out in the order submit, polls, resolve,
\* fetch: submit is the first and only the first request, resolve directly
\* follows a poll answered SUCCESS with a result URL, fetch directly follows
\* a resolve that returned a direct URL, and no poll is sent after a poll
\* was answered SUCCESS with a result URL or FAILED.
C18_SubmitPollResolveFetch ==
    LET calls == job.calls
    IN  /\ \A i \in 1..Len(calls) :
              /\ (calls[i] = "submit") <=> (i = 1)
              /\ calls[i] = "resolve" =>
                    /\ calls[i - 1] = "poll"
                    /\ "SUCCESS_URL" \in job.sawStatus
                    /\ job.terminalAt = job.polls
              /\ calls[i] = "fetch" =>
                    /\ calls[i - 1] = "resolve"
                    /\ job.direct
                    /\ i = Len(calls)
        /\ job.polls = Occurrences(calls, "poll")
        /\ job.terminalAt > 0 => job.polls = job.terminalAt

\* C18 witness: submit, two polls, resolve and fetch have been sent and the
\* job has the image.
C18_Witness ==
    /\ job.calls = <<"submit", "poll", "poll", "resolve", "fetch">>
    /\ job.result = ImageResult

\* C19: for every text of the model, post drafting returns a post whose
\* title and content are not empty and idea generation returns a list of
\* ideas.
C19_ExtractionPopulated ==
    pc = "done" =>
        /\ mode \in {"draft", "draft_fallback"} =>
              /\ lastDelta["linkedin_post"].title # <<>>
              /\ lastDelta["linkedin_post"].content # <<>>
        /\ mode = "ideas" =>
              lastDelta["content_ideas"] \in Seq(Range(lastDelta["content_ideas"]))

\* C20: for every response idea generation returns exactly two ideas.
C20_ExactlyTwoIdeas ==
    (pc = "done" /\ mode = "ideas") => Len(lastDelta["content_ideas"]) = 2

\* the post the drafting call has returned, and the text it was drafted from
DraftedPost == lastDelta["linkedin_post"]

Drafted == mode = "draft" /\ pc # "extract"

DraftText == Strip(st.response)

RemainingLines == Tail(SplitLines(DraftText))

\* the tokens that are a '#' followed by word characters
HashtagTokens == {"#ai", "#leadership"}

IsHashtagToken(token) == token \in HashtagTokens

IsBodyToken(token) == token \notin HashtagTokens

\* the hashtag tokens of some lines, in order of appearance
RECURSIVE TagsIn(_)
TagsIn(lines) ==
    IF lines = <<>> THEN <<>>
    ELSE SelectSeq(Head(lines), IsHashtagToken) \o TagsIn(Tail(lines))

\* the lines that are not empty once their hashtag tokens are removed
RECURSIVE BodyOf(_)
BodyOf(lines) ==
    IF lines = <<>> THEN <<>>
    ELSE LET stripped == SelectSeq(Head(lines), IsBodyToken)
         IN  (IF stripped = <<>> THEN <<>> ELSE <<stripped>>) \o BodyOf(Tail(lines))

\* C21 as stated: for every non-empty text the title is the first non-empty
\* line, hashtags is the sequence of hashtag tokens of the remaining lines
\* and content is the remaining non-empty lines without those tokens.
C21_HeuristicReconstruction ==
    (Drafted /\ DraftText # <<>>) =>
        /\ DraftedPost.title = Head(DraftText)
        /\ DraftedPost.hashtags = TagsIn(RemainingLines)
        /\ DraftedPost.content = BodyOf(RemainingLines)

\* C21 amended: the title is the first non-empty line; when the remaining
\* lines hold a hashtag token, hashtags is the sequence of those tokens in
\* order of appearance; when text is left in the remaining lines without
\* those tokens, content is these lines.
C21_HeuristicWhenPresent ==
    (Drafted /\ DraftText # <<>>) =>
        /\ DraftedPost.title = Head(DraftText)
        /\ TagsIn(RemainingLines) # <<>> =>
              DraftedPost.hashtags = TagsIn(RemainingLines)
        /\ BodyOf(RemainingLines) # <<>> =>
              DraftedPost.content = BodyOf(RemainingLines)

\* C21 witness: a title line, a body line and a line of two hashtags gave
\* that title, that body and the two hashtags in their order.
C21_Witness ==
    /\ Drafted
    /\ st.response = << <<"word">>, <<"word">>, <<"#ai", "#leadership">> >>
    /\ DraftedPost.title = <<"word">>
    /\ DraftedPost.hashtags = <<"#ai", "#leadership">>
    /\ DraftedPost.content = << <<"word">> >>

\* C22: the post drafted from the text of a well-formed envelope has the
\* envelope's title, content, hashtags, call_to_action and
\* estimated_engagement.
C22_EnvelopeRoundTrip ==
    (mode = "envelope" /\ pc # "extract") => DraftedPost = st.envelope

\* the text create_fallback_post works on, brace-delimited blocks removed
CleanedText ==
    Strip([i \in 1..Len(st.response) |-> SelectSeq(st.response[i], NotJson)])

\* C23: when no body is left after the title line and the hashtag tokens
\* are removed, content is the text minus its title line, and when that is
\* empty too, content is the placeholder; in create_fallback_post an empty
\* rest gives the placeholder.
C23_EmptyBodyFallback ==
    /\ (Drafted /\ BodyOf(RemainingLines) = <<>>) =>
          DraftedPost.content =
              IF Strip(RemainingLines) # <<>> THEN Strip(RemainingLines)
              ELSE ContentPlaceholder
    /\ (mode = "draft_fallback" /\ pc # "extract"
          /\ Strip(Tail(SplitLines(CleanedText))) = <<>>) =>
          DraftedPost.content = ContentPlaceholder

\* the tokens of the model's text
TextTokens == UNION {Range(DraftText[i]) : i \in 1..Len(DraftText)}

\* C24: a text without hashtag token gives the tags of the first three
\* words of the post's title; a text with a hashtag token gives no
\* synthesized tag, every tag of the post is a token of the text.
C24_SynthesizedHashtags ==
    (mode \in {"draft", "draft_fallback"} /\ pc # "extract") =>
        IF TextTokens \cap HashtagTokens = {}
        THEN DraftedPost.hashtags = title_hashtags(DraftedPost.title)
        ELSE Range(DraftedPost.hashtags) \subseteq TextTokens \cap HashtagTokens

PromotionEnded == mode = "promotion" /\ pc = "done" /\ ~inGraph

\* C26: at the end of a product-promotion run a rejection (user_approval =
\* False) is reported as completed, an absent approval of a run that did not
\* fail as awaiting approval, and in neither has linkedin_posting been
\* invoked.
C26_RejectionIsTerminal ==
    /\ (PromotionEnded /\ Get(st, "user_approval", NONE) = PyFalse) =>
          /\ Get(st, "promotion_status", NONE) = "completed"
          /\ "linkedin_posting" \notin Range(invoked)
    /\ (PromotionEnded /\ Get(st, "user_approval", NONE) = NONE
          /\ WorkflowStatus # "failed") =>
          /\ Get(st, "promotion_status", NONE) = "awaiting_approval"
          /\ "linkedin_posting" \notin Range(invoked)

\* C27: a graph run of run_linkedin_agent(topic, user_choice) with
\* user_choice 1 or 2, exactly two ideas and no failed stage ends with
\* selected_idea set to
\* the idea of that choice, after content_writer has been invoked, and not
\* at 'awaiting_choice'.
C27_ChoiceContinuesRun ==
    (mode = "main" /\ choiceArg \in {{1}, {2}} /\ pc = "done" /\ ~failedRet
       /\ Len(Get(st, "content_ideas", <<>>)) = 2) =>
        /\ \A c \in choiceArg :
              Get(st, "selected_idea", NONE) = st["content_ideas"][c]
        /\ "content_writer" \in Range(invoked)
        /\ WorkflowStatus # "awaiting_choice"

\* C28: when the publishing collaborator answers with a non-success
\* response, the delta linkedin_posting_node returns has workflow_status and
\* posting_status 'failed' and the collaborator's message as error_message.
C28_PublishingFailureReported ==
    (JustInvoked("linkedin_posting") /\ "response" \in DOMAIN lastDelta
       /\ lastDelta["response"] = "error") =>
        /\ Get(lastDelta, "workflow_status", NONE) = "failed"
        /\ Get(lastDelta, "posting_status", NONE) = "failed"
        /\ Get(lastDelta, "error_message", NONE) = lastDelta["note"]

\* C29: choice_node called with exactly two ideas and a user_choice that is
\* neither None, 1 nor 2 returns workflow_status 'failed', an error_message
\* that names the choice and no selected_idea; on the merged state the edge
\* after the choice stage leads to the end, not to content_writer.
C29_InvalidChoiceFails ==
    (pc = "done" /\ mode = "call" /\ Len(st["content_ideas"]) = 2
       /\ choiceArg \notin {{}, {1}, {2}}) =>
        /\ lastDelta["workflow_status"] = "failed"
        /\ choiceArg = {0} =>
             lastDelta["error_message"] = "Invalid choice: 0. Please choose 1 or 2."
        /\ choiceArg = {3} =>
             lastDelta["error_message"] = "Invalid choice: 3. Please choose 1 or 2."
        /\ "selected_idea" \notin DOMAIN lastDelta
        /\ route_after_choice(st) = "__end__"

C29_Witness ==
    /\ pc = "done" /\ mode = "call" /\ choiceArg = {3}
    /\ st["content_ideas"] = <<"A", "B">>
    /\ lastDelta["workflow_status"] = "failed"

\* C30: in a graph run, once a stage has failed, no later step of the run
\* changes error_message: the final state keeps the message of the first
\* failing stage.
C30_FirstFailureKept ==
    [][(inGraph /\ failedRet /\ mode \in {"main", "interactive", "promotion"}) =>
          Get(st', "error_message", NONE) = Get(st, "error_message", NONE)]_vars

\* the step invokes `node` in the interactive continuation
DirectlyInvokes(node) ==
    /\ mode = "interactive" /\ ~inGraph
    /\ invoked' # invoked /\ Last(invoked') = node

\* C31: in the interactive runner image_generation_node is invoked only
\* right after a content_writer_node call that returned 'writing_completed',
\* and with the linkedin_post of that call; the PDF step and the
\* post/regenerate prompt are reached only after image_generation_node
\* returned 'imaging_completed'.
C31_ImageAfterCompletedDraft ==
    [][/\ DirectlyInvokes("image_generation") =>
            /\ invoked # <<>> /\ Last(invoked) = "content_writer"
            /\ Get(lastDelta, "workflow_status", NONE) = "writing_completed"
            /\ argBefore'["linkedin_post"] = lastDelta["linkedin_post"]
       /\ (pc' = "ask_action" /\ pc # "ask_action") =>
            /\ DirectlyInvokes("image_generation")
            /\ Get(lastDelta', "workflow_status", NONE) = "imaging_completed"
       /\ (DirectlyInvokes("image_generation") /\ pc' = "raised") =>
            Get(lastDelta', "workflow_status", NONE) = "imaging_completed"]_vars

\* C31 witness: the regenerate pass has invoked image_generation_node with
\* the second draft.
C31_Witness ==
    /\ mode = "interactive" /\ userAction = "regenerate"
    /\ JustInvoked("image_generation")
    /\ argBefore["linkedin_post"] = "p2" /\ Get(st, "linkedin_post", NONE) = "p2"
    /\ Occurrences(invoked, "content_writer") = 2

\* C32: after linkedin_posting_node published the post, the final state has
\* workflow_status 'posting_completed', posting_status 'completed' and the
\* id the backend returned as linkedin_post_id.
C32_PublishReported ==
    (JustInvoked("linkedin_posting") /\ pc = "done"
       /\ Get(lastDelta, "response", NONE) = "ok") =>
        /\ WorkflowStatus = "posting_completed"
        /\ Get(st, "posting_status", NONE) = "completed"
        /\ Get(st, "linkedin_post_id", NONE) = lastDelta["id"]

\* C33: post_to_linkedin_rest_api sends the create-post request only after
\* the user-identity lookup succeeded and, when a generated image is
\* provided, only after that image was uploaded.
C33_CreateAfterLookupAndUpload ==
    (mode = "publish_call" /\ "create_post" \in Range(invoked)) =>
        /\ st.user_urn # NONE
        /\ st.generated_image # NONE => st.image_urn # NONE

\* C34: in one run of the interactive runner content_writer_node and
\* image_generation_node are each invoked at most twice and
\* linkedin_posting_node at most once, and after the operator chose
\* 'regenerate' linkedin_posting_node is not invoked.
C34_RegenerateBounded ==
    mode = "interactive" =>
        /\ Occurrences(invoked, "content_writer") <= 2
        /\ Occurrences(invoked, "image_generation") <= 2
        /\ Occurrences(invoked, "linkedin_posting") <= 1
        /\ userAction = "regenerate" => "linkedin_posting" \notin Range(invoked)

\* C34 witness: the regenerate pass has run both stages a second time.
C34_Witness ==
    /\ mode = "interactive" /\ pc = "done" /\ userAction = "regenerate"
    /\ Occurrences(invoked, "content_writer") = 2
    /\ Occurrences(invoked, "image_generation") = 2

\* C35: at the end of a run of the interactive runner a generated_image in
\* the final state comes with a linkedin_post, and it is the image that was
\* generated from that post.
C35_ImageMatchesPost ==
    (mode = "interactive" /\ pc = "done" /\ ~inGraph
       /\ Get(st, "generated_image", NONE) # NONE) =>
        /\ Get(st, "linkedin_post", NONE) # NONE
        /\ st["generated_image"] = ImageFor(st["linkedin_post"])

\* the answers of the image backend that report an error
JobErrorAnswers == {"http_error", "api_error", "network_error", "error"}

\* C36: a request of the image job that is answered with an error ends the
\* job with an exception at once, and after such an answer no request is
\* sent any more: the failed request is not repeated and no later request
\* of the submit, poll, resolve, fetch sequence is made.
C36_NoRetryAfterError ==
    [][/\ (job'.calls # job.calls /\ job'.lastAnswer \in JobErrorAnswers) =>
            /\ job'.pc = "return"
            /\ job'.result.kind = "exception"
       /\ job.lastAnswer \in JobErrorAnswers => job'.calls = job.calls]_vars

\* C36 witness: the second status poll was answered with an HTTP error and
\* the job ended there.
C36_Witness ==
    /\ job.pc = "done" /\ job.lastAnswer = "http_error"
    /\ job.calls = <<"submit", "poll", "poll">>
    /\ job.result = JobException("status_http")
    /\ WorkflowStatus = "failed"

\* C37: when the text holds an envelope that decodes, at once or after the
\* control characters are removed, idea generation returns one ContentIdea
\* per entry of its 'ideas' list, in the order of the list, each field the
\* entry's value or, when the entry lacks it, '' or []; the result is not
\* the one of the heuristic fallback.
C37_StrictParse ==
    (mode = "ideas" /\ pc = "done" /\ st.response.json \in {"valid", "control"}) =>
        LET entries == st.response.ideas
            ideas == lastDelta["content_ideas"]
        IN  /\ Len(ideas) = Len(entries)
            /\ \A i \in 1..Len(entries) :
                 /\ ideas[i].title = Get(Entry(entries[i]), "title", "")
                 /\ ideas[i].description = Get(Entry(entries[i]), "description", "")
                 /\ ideas[i].key_points = Get(Entry(entries[i]), "key_points", <<>>)
                 /\ ideas[i].target_audience =
                        Get(Entry(entries[i]), "target_audience", "")
                 /\ ideas[i].inspiration_sources =
                        Get(Entry(entries[i]), "inspiration_sources", <<>>)

\* the image job ends with one of the results of generate_image_with_kie_ai
\* and the node returns one of the deltas of image_generation_node
JobTypeOK ==
    /\ job.pc \in {"return", "done"} => job.result \in generate_image_with_kie_ai(env)
    /\ job.pc \notin {"return", "done"} => job.result = NoResult
    /\ pc = "done" => lastDelta \in {o.delta : o \in image_generation_node(argBefore, env)}
====
